---- MODULE Spec2Model ----
(***************************************************************************)
(* Model of onpolicy/algorithms/r_mappo/algorithm/r_actor_critic.py:       *)
(* construction of R_Actor / R_Critic from one argument namespace and the  *)
(* three call paths R_Actor.forward, R_Actor.evaluate_actions and          *)
(* R_Critic.forward.                                                       *)
(*                                                                         *)
(* Tensors are modelled by their values: a batch is a sequence of rows, a  *)
(* hidden-state row is a sequence of hidden_size numbers.  The learned     *)
(* sub-networks (encoder, recurrent cell, heads) live outside this file;   *)
(* their outputs are symbolic terms over the exact inputs they were given, *)
(* and every invocation of one is appended to the call's `calls` log.      *)
(***************************************************************************)
EXTENDS Integers, Sequences, FiniteSets, TLC

VARIABLES args, inp, actor, critic, last

vars == <<args, inp, actor, critic, last>>

(* ---------------------------------------------------------------- bounds *)
MaxHidden == 4
MaxUnits == 2
MaxBatch == 2

HiddenSizes == 2..MaxHidden
NumUnits == 0..MaxUnits
EnvNames == {"MPE-simple.spread", "SISL-multiwalker", "other"}

(* ---------------------------------------------------------------- inputs *)
(* Hidden-state tensors a caller may hold for a batch of b agents: zeros,  *)
(* or the entries 1, 2, ..., b*n laid out row by row.                      *)
StateTensors(b, n) ==
  { [i \in 1..b |-> [j \in 1..n |-> 0]],
    [i \in 1..b |-> [j \in 1..n |-> (i - 1) * n + j]] }

(* The tensors of one rollout step: observation row i belongs to agent i.  *)
Inputs(n) ==
  UNION { [obs : {[i \in 1..b |-> i]},
           rnn_states : StateTensors(b, n),
           masks : [1..b -> {0, 1}]] : b \in 1..MaxBatch }

ArgSpace ==
  [ hidden_size : HiddenSizes,
    num_units : NumUnits,
    env_name : EnvNames,
    use_naive_recurrent_policy : BOOLEAN,
    use_recurrent_policy : BOOLEAN,
    use_rims_policy_LSTM : BOOLEAN,
    use_rims_policy_GRU : BOOLEAN,
    use_lstm_policy : BOOLEAN ]

(* ------------------------------------------------------------ exceptions *)
Unset == [kind |-> "unset"]
NoError == "none"

Raise(e, log) == [raised |-> e, ret |-> <<>>, calls |-> log]
Return(r, log) == [raised |-> NoError, ret |-> r, calls |-> log]

(* ---------------------------------------------------------- collaborators *)
(* RIMCell(device, input_size, hidden_size, num_units, k, rnn_cell, ...):  *)
(* the constructor keeps the sizes it is handed.                           *)
RIMCell(input_size, unit_size, num_units, rnn_cell) ==
  [kind |-> "RIMCell", rnn_cell |-> rnn_cell, input_size |-> input_size,
   hidden_size |-> unit_size, num_units |-> num_units]

RNNLayer(inputs_dim, outputs_dim) ==
  [kind |-> "RNNLayer", inputs_dim |-> inputs_dim, outputs_dim |-> outputs_dim]

ACTLayer(variant, inputs_dim) ==
  [kind |-> variant, inputs_dim |-> inputs_dim]

(* -------------------------------------------------------------- R_Actor *)
(* Lines 61-67 / 234-240: first match among the three variant flags.       *)
BuildRnn_GRUFirst(a) ==
  IF a.use_naive_recurrent_policy \/ a.use_recurrent_policy
  THEN IF a.use_rims_policy_GRU
       THEN RIMCell(a.hidden_size, a.hidden_size \div a.num_units, a.num_units, "GRU")
       ELSE IF a.use_rims_policy_LSTM
       THEN RIMCell(a.hidden_size, a.hidden_size \div a.num_units, a.num_units, "LSTM")
       ELSE IF a.use_lstm_policy
       THEN RNNLayer(a.hidden_size, a.hidden_size)
       ELSE Unset
  ELSE Unset

BuildRnn(a) ==
  IF a.use_naive_recurrent_policy \/ a.use_recurrent_policy
  THEN IF a.use_rims_policy_LSTM
       THEN RIMCell(a.hidden_size, a.hidden_size \div a.num_units, a.num_units, "LSTM")
       ELSE IF a.use_rims_policy_GRU
       THEN RIMCell(a.hidden_size, a.hidden_size \div a.num_units, a.num_units, "GRU")
       ELSE IF a.use_lstm_policy
       THEN RNNLayer(a.hidden_size, a.hidden_size)
       ELSE Unset
  ELSE Unset

(* hidden_size // num_units is evaluated only on the two RIMCell lines.    *)
DividesByZero(a) ==
  /\ a.use_naive_recurrent_policy \/ a.use_recurrent_policy
  /\ a.use_rims_policy_LSTM \/ a.use_rims_policy_GRU
  /\ a.num_units = 0

BuildAct_Default(a) ==
  IF a.env_name = "SISL-multiwalker" THEN ACTLayer("multiwalker_act", a.hidden_size)
  ELSE ACTLayer("mpe_act", a.hidden_size)

BuildAct(a) ==
  IF a.env_name = "MPE-simple.spread" THEN ACTLayer("mpe_act", a.hidden_size)
  ELSE IF a.env_name = "SISL-multiwalker" THEN ACTLayer("multiwalker_act", a.hidden_size)
  ELSE Unset

Fields(a) ==
  [ hidden_size |-> a.hidden_size,
    num_units |-> a.num_units,
    use_naive_recurrent_policy |-> a.use_naive_recurrent_policy,
    use_recurrent_policy |-> a.use_recurrent_policy,
    use_rims_policy_LSTM |-> a.use_rims_policy_LSTM,
    use_rims_policy_GRU |-> a.use_rims_policy_GRU,
    use_lstm_policy |-> a.use_lstm_policy ]

R_Actor_init(a) ==
  IF DividesByZero(a)
  THEN [status |-> "raised", error |-> "ZeroDivisionError"]
  ELSE [status |-> "ok",
        cfg |-> Fields(a),
        env_name |-> a.env_name,
        base |-> [kind |-> "base"],
        rnn |-> BuildRnn(a),
        head |-> BuildAct(a)]

R_Critic_init(a) ==
  IF DividesByZero(a)
  THEN [status |-> "raised", error |-> "ZeroDivisionError"]
  ELSE [status |-> "ok",
        cfg |-> Fields(a),
        env_name |-> "",
        base |-> [kind |-> "base"],
        rnn |-> BuildRnn(a),
        head |-> [kind |-> "v_out", inputs_dim |-> a.hidden_size]]

(* ------------------------------------------------------ tensor helpers *)
TwoTo24 == 16777216

(* .to(dtype=torch.float32): integers of magnitude up to 2^24 are kept     *)
(* exactly, larger ones lose their low bit.                                *)
ToFloat32(v) ==
  IF v \in Int
  THEN IF v <= TwoTo24 /\ -v <= TwoTo24 THEN v ELSE 2 * (v \div 2)
  ELSE v

(* check(x).to(float32) on a batch of rows, and on a batch of scalars  *)
check_rows(t) == [i \in DOMAIN t |-> [j \in DOMAIN t[i] |-> ToFloat32(t[i][j])]]
check_col(t) == [i \in DOMAIN t |-> ToFloat32(t[i])]

Min(a, b) == IF a < b THEN a ELSE b

(* rnn_states[:, :n] *)
SliceCols(t, n) == [i \in DOMAIN t |-> SubSeq(t[i], 1, Min(n, Len(t[i])))]

(* t.view(t.size(0), units, -1) is defined iff the row length splits       *)
ViewFits(t, units) ==
  /\ units > 0
  /\ \A i \in DOMAIN t : Len(t[i]) % units = 0

View3(t, units) ==
  [i \in DOMAIN t |->
     [u \in 1..units |->
        SubSeq(t[i], (u - 1) * (Len(t[i]) \div units) + 1,
                     u * (Len(t[i]) \div units))]]

RECURSIVE Concat(_)
Concat(ss) == IF ss = <<>> THEN <<>> ELSE Head(ss) \o Concat(Tail(ss))

(* t.view(t.size(0), -1) on a (batch, units, d) tensor *)
Flatten(t) == [i \in DOMAIN t |-> Concat(t[i])]

(* x.unsqueeze(1): a singleton time dimension per batch element *)
Unsqueeze1(t) == [i \in DOMAIN t |-> <<t[i]>>]

(* ------------------------------------------ collaborators' forward passes *)
(* self.base(obs): one embedding per batch element                         *)
base_forward(obs) == [i \in DOMAIN obs |-> [t |-> "emb", obs |-> obs[i]]]

(* RIMCell.forward(x, hs, cs) -> (hs', cs'), each (batch, num_units, d).   *)
(* Entry (u, j) of batch element b of either result is a term; what it is  *)
(* a function of is the invocation recorded in the call log.               *)
RIMCell_forward(cell, x, hs, cs) ==
  [h |-> [i \in DOMAIN x |-> [u \in DOMAIN hs[i] |-> [j \in DOMAIN hs[i][u] |->
            [t |-> "h", cell |-> cell.rnn_cell, b |-> i, u |-> u, j |-> j]]]],
   c |-> [i \in DOMAIN x |-> [u \in DOMAIN hs[i] |-> [j \in DOMAIN hs[i][u] |->
            [t |-> "c", cell |-> cell.rnn_cell, b |-> i, u |-> u, j |-> j]]]]]

(* RNNLayer.forward(x, hxs, masks): the step consumes hxs * masks          *)
RNNLayer_forward(x, hxs, masks) ==
  [consumed |-> [i \in DOMAIN hxs |-> [j \in DOMAIN hxs[i] |-> hxs[i][j] * masks[i]]],
   x |-> [i \in DOMAIN x |-> [t |-> "rnn_x", b |-> i]],
   h |-> [i \in DOMAIN x |-> [j \in DOMAIN hxs[i] |-> [t |-> "rnn_h", b |-> i, j |-> j]]]]

(* ACTLayer.forward(x, available_actions, deterministic): the mode of the  *)
(* distribution when deterministic, else the draw                          *)
act_forward(head, x, available_actions, deterministic, draw) ==
  [i \in DOMAIN x |->
     [t |-> IF deterministic THEN "mode" ELSE draw,
      head |-> head.kind, x |-> x[i], avail |-> available_actions]]

(* ACTLayer.evaluate_actions(x, action, available_actions, active_masks)   *)
act_evaluate(head, x, action, available_actions, active_masks) ==
  [i \in DOMAIN x |->
     [t |-> "log_prob", head |-> head.kind, x |-> x[i], action |-> action[i],
      avail |-> available_actions, active |-> active_masks]]

(* self.v_out(critic_features)                                             *)
v_out_forward(head, x) ==
  [i \in DOMAIN x |-> [t |-> "value", head |-> head.kind, x |-> x[i]]]

(* --------------------------------------------------- the recurrent step *)
Recurrent(self) ==
  self.cfg.use_naive_recurrent_policy \/ self.cfg.use_recurrent_policy

(* Variant: the updated hidden sub-state is returned as the new state.     *)
MultiModuleStep_HiddenOut(self, features, rnn_states, masks, log) ==
  LET sl0 == SliceCols(rnn_states, self.cfg.hidden_size)
  IN IF ~ViewFits(sl0, self.cfg.num_units)
     THEN [raised |-> "RuntimeError", features |-> features,
           rnn_states |-> rnn_states, calls |-> log]
     ELSE LET hidden0 == View3(sl0, self.cfg.num_units)
              hidden1 == View3(Flatten(hidden0), self.cfg.num_units)
              x == Unsqueeze1(features)
          IN IF self.rnn = Unset
             THEN [raised |-> "AttributeError: rnn", features |-> x,
                   rnn_states |-> rnn_states, calls |-> log]
             ELSE LET out == RIMCell_forward(self.rnn, x, hidden0, hidden1)
                  IN [raised |-> NoError,
                      features |-> Flatten(out.h),
                      rnn_states |-> Flatten(out.h),
                      calls |-> Append(log,
                         [unit |-> self.rnn, x |-> x,
                          h |-> hidden0, c |-> hidden1])]

(* Variant: the slices are zeroed by the reset mask before the cell.       *)
MultiModuleStep_Reset(self, features, rnn_states, masks, log) ==
  LET sl0 == SliceCols([i \in DOMAIN rnn_states |->
                          [j \in DOMAIN rnn_states[i] |-> rnn_states[i][j] * masks[i]]],
                       self.cfg.hidden_size)
  IN IF ~ViewFits(sl0, self.cfg.num_units)
     THEN [raised |-> "RuntimeError", features |-> features,
           rnn_states |-> rnn_states, calls |-> log]
     ELSE LET hidden0 == View3(sl0, self.cfg.num_units)
              hidden1 == View3(Flatten(hidden0), self.cfg.num_units)
              x == Unsqueeze1(features)
          IN IF self.rnn = Unset
             THEN [raised |-> "AttributeError: rnn", features |-> x,
                   rnn_states |-> rnn_states, calls |-> log]
             ELSE LET out == RIMCell_forward(self.rnn, x, hidden0, hidden1)
                  IN [raised |-> NoError,
                      features |-> Flatten(out.h),
                      rnn_states |-> Flatten(out.c),
                      calls |-> Append(log,
                         [unit |-> self.rnn, x |-> x,
                          h |-> hidden0, c |-> hidden1])]

(* Lines 110-122 / 162-174 / 277-289.  `half` (line 111) is a local that   *)
(* nothing reads.  hidden[1] is a view of hidden[0] (line 116).            *)
MultiModuleStep(self, features, rnn_states, masks, log) ==
  LET sl0 == SliceCols(rnn_states, self.cfg.hidden_size)
      sl1 == SliceCols(rnn_states, self.cfg.hidden_size)
  IN IF ~ViewFits(sl0, self.cfg.num_units)
     THEN [raised |-> "RuntimeError", features |-> features,
           rnn_states |-> rnn_states, calls |-> log]
     ELSE LET hidden0 == View3(sl0, self.cfg.num_units)
              hidden1 == View3(Flatten(hidden0), self.cfg.num_units)
              x == Unsqueeze1(features)
          IN IF self.rnn = Unset
             THEN [raised |-> "AttributeError: rnn", features |-> x,
                   rnn_states |-> rnn_states, calls |-> log]
             ELSE LET out == RIMCell_forward(self.rnn, x, hidden0, hidden1)
                  IN [raised |-> NoError,
                      features |-> Flatten(out.h),
                      rnn_states |-> Flatten(out.c),
                      calls |-> Append(log,
                         [unit |-> self.rnn, x |-> x,
                          h |-> hidden0, c |-> hidden1])]

(* Variant: the layer is called without the caller's reset mask.           *)
SimpleStep_NoMask(self, features, rnn_states, masks, log) ==
  IF self.rnn = Unset
  THEN [raised |-> "AttributeError: rnn", features |-> features,
        rnn_states |-> rnn_states, calls |-> log]
  ELSE LET ones == [i \in DOMAIN masks |-> 1]
           out == RNNLayer_forward(features, rnn_states, ones)
       IN [raised |-> NoError,
           features |-> out.x,
           rnn_states |-> out.h,
           calls |-> Append(log,
              [unit |-> self.rnn, x |-> features,
               h |-> rnn_states, masks |-> ones, consumed |-> out.consumed])]

(* Lines 123-124 / 175-176 / 290-291 *)
SimpleStep(self, features, rnn_states, masks, log) ==
  IF self.rnn = Unset
  THEN [raised |-> "AttributeError: rnn", features |-> features,
        rnn_states |-> rnn_states, calls |-> log]
  ELSE LET out == RNNLayer_forward(features, rnn_states, masks)
       IN [raised |-> NoError,
           features |-> out.x,
           rnn_states |-> out.h,
           calls |-> Append(log,
              [unit |-> self.rnn, x |-> features,
               h |-> rnn_states, masks |-> masks, consumed |-> out.consumed])]

(* Variant: the variant flags are consulted although recurrence is off.    *)
RecurrentStep_NoOuterFlag(self, features, rnn_states, masks, log) ==
  IF self.cfg.use_rims_policy_LSTM \/ self.cfg.use_rims_policy_GRU
  THEN MultiModuleStep(self, features, rnn_states, masks, log)
  ELSE IF self.cfg.use_lstm_policy
  THEN SimpleStep(self, features, rnn_states, masks, log)
  ELSE [raised |-> NoError, features |-> features,
        rnn_states |-> rnn_states, calls |-> log]

(* Variant: the Simple-Recurrent flag is tested before the Multi-Module    *)
(* flags.                                                                  *)
RecurrentStep_SimpleFirst(self, features, rnn_states, masks, log) ==
  IF Recurrent(self)
  THEN IF self.cfg.use_lstm_policy
       THEN SimpleStep(self, features, rnn_states, masks, log)
       ELSE IF self.cfg.use_rims_policy_LSTM \/ self.cfg.use_rims_policy_GRU
       THEN MultiModuleStep(self, features, rnn_states, masks, log)
       ELSE [raised |-> NoError, features |-> features,
             rnn_states |-> rnn_states, calls |-> log]
  ELSE [raised |-> NoError, features |-> features,
        rnn_states |-> rnn_states, calls |-> log]

(* Lines 109-124 / 161-176 / 276-291 *)
RecurrentStep(self, features, rnn_states, masks, log) ==
  IF Recurrent(self)
  THEN IF self.cfg.use_rims_policy_LSTM \/ self.cfg.use_rims_policy_GRU
       THEN MultiModuleStep(self, features, rnn_states, masks, log)
       ELSE IF self.cfg.use_lstm_policy
       THEN SimpleStep(self, features, rnn_states, masks, log)
       ELSE [raised |-> NoError, features |-> features,
             rnn_states |-> rnn_states, calls |-> log]
  ELSE [raised |-> NoError, features |-> features,
        rnn_states |-> rnn_states, calls |-> log]

(* Variant: line 111 assigns the field instead of the local `half`.        *)
R_Actor_forward_Stateful(self, obs, rnn_states, masks, available_actions, deterministic, draw) ==
  LET st == check_rows(rnn_states)
      mk == check_col(masks)
      actor_features == base_forward(obs)
      r == RecurrentStep(self, actor_features, st, mk, <<>>)
  IN [self |-> IF Recurrent(self) /\ (self.cfg.use_rims_policy_LSTM \/ self.cfg.use_rims_policy_GRU)
               THEN [self EXCEPT !.cfg.hidden_size = self.cfg.hidden_size \div 2]
               ELSE self,
      out |-> IF r.raised # NoError THEN Raise(r.raised, r.calls)
              ELSE IF self.head = Unset THEN Raise("AttributeError: act", r.calls)
              ELSE Return(
                     [actions |-> act_forward(self.head, r.features,
                                              available_actions, deterministic, draw),
                      rnn_states |-> r.rnn_states],
                     r.calls)]

(* R_Actor.forward, lines 81-127.  The result pairs the instance after the *)
(* call with what the call returned or raised.                             *)
R_Actor_forward(self, obs, rnn_states, masks, available_actions, deterministic, draw) ==
  LET st == check_rows(rnn_states)
      mk == check_col(masks)
      actor_features == base_forward(obs)
      r == RecurrentStep(self, actor_features, st, mk, <<>>)
  IN [self |-> self,
      out |-> IF r.raised # NoError THEN Raise(r.raised, r.calls)
              ELSE IF self.head = Unset THEN Raise("AttributeError: act", r.calls)
              ELSE Return(
                     [actions |-> act_forward(self.head, r.features,
                                              available_actions, deterministic, draw),
                      rnn_states |-> r.rnn_states],
                     r.calls)]

(* R_Actor.evaluate_actions, lines 129-184.  Callers here leave            *)
(* active_masks at its default None, which line 181 hands on as None       *)
(* whatever _use_policy_active_masks says.                                 *)
R_Actor_evaluate_actions(self, obs, rnn_states, action, masks, available_actions, active_masks) ==
  LET st == check_rows(rnn_states)
      mk == check_col(masks)
      actor_features == base_forward(obs)
      r == RecurrentStep(self, actor_features, st, mk, <<>>)
  IN [self |-> self,
      out |-> IF r.raised # NoError THEN Raise(r.raised, r.calls)
              ELSE IF self.head = Unset THEN Raise("AttributeError: act", r.calls)
              ELSE Return(
                     [action_log_probs |-> act_evaluate(self.head, r.features, action,
                         available_actions,
                         active_masks)],
                     r.calls)]

(* R_Critic.forward, lines 260-295 *)
R_Critic_forward(self, obs, rnn_states, masks) ==
  LET st == check_rows(rnn_states)
      mk == check_col(masks)
      critic_features == base_forward(obs)
      r == RecurrentStep(self, critic_features, st, mk, <<>>)
  IN [self |-> self,
      out |-> IF r.raised # NoError THEN Raise(r.raised, r.calls)
              ELSE Return(
                     [values |-> v_out_forward(self.head, r.features),
                      rnn_states |-> r.rnn_states],
                     r.calls)]

NotBuilt == [status |-> "unbuilt"]
NoCall == [op |-> "none"]

Init ==
  /\ args \in ArgSpace
  /\ inp \in Inputs(args.hidden_size)
  /\ actor = NotBuilt
  /\ critic = NotBuilt
  /\ last = NoCall

ConstructActor ==
  /\ actor = NotBuilt
  /\ actor' = R_Actor_init(args)
  /\ UNCHANGED <<args, inp, critic, last>>

ConstructCritic ==
  /\ critic = NotBuilt
  /\ critic' = R_Critic_init(args)
  /\ UNCHANGED <<args, inp, actor, last>>

(* act is called with deterministic = True; a call with deterministic =    *)
(* False samples from the process-wide random generator.                   *)
Act ==
  /\ actor.status = "ok"
  /\ \E deterministic \in {TRUE} :
       LET res == R_Actor_forward(actor, inp.obs, inp.rnn_states, inp.masks,
                                  "None", deterministic, "sample")
       IN /\ actor' = res.self
          /\ last' = [op |-> "act", deterministic |-> deterministic, out |-> res.out]
  /\ UNCHANGED <<args, inp, critic>>

Evaluate ==
  /\ actor.status = "ok"
  /\ LET action == [i \in DOMAIN inp.obs |-> "a"]
         res == R_Actor_evaluate_actions(actor, inp.obs, inp.rnn_states, action,
                                         inp.masks, "None", "None")
     IN /\ actor' = res.self
        /\ last' = [op |-> "evaluate", deterministic |-> TRUE, out |-> res.out]
  /\ UNCHANGED <<args, inp, critic>>

Estimate ==
  /\ critic.status = "ok"
  /\ LET res == R_Critic_forward(critic, inp.obs, inp.rnn_states, inp.masks)
     IN /\ critic' = res.self
        /\ last' = [op |-> "estimate", deterministic |-> TRUE, out |-> res.out]
  /\ UNCHANGED <<args, inp, actor>>

Next == ConstructActor \/ ConstructCritic \/ Act \/ Evaluate \/ Estimate

Spec == Init /\ [][Next]_vars

(* ====================================================== properties ===== *)
Nets == {actor, critic}

Called == last.op # "none"

RecurrentRequested == args.use_naive_recurrent_policy \/ args.use_recurrent_policy

VariantsSelected ==
  Cardinality({f \in {"LSTM", "GRU", "Simple"} :
                 \/ f = "LSTM" /\ args.use_rims_policy_LSTM
                 \/ f = "GRU" /\ args.use_rims_policy_GRU
                 \/ f = "Simple" /\ args.use_lstm_policy})

MultiModuleSelected ==
  RecurrentRequested /\ (args.use_rims_policy_LSTM \/ args.use_rims_policy_GRU)

SimpleSelected ==
  /\ RecurrentRequested
  /\ ~args.use_rims_policy_LSTM /\ ~args.use_rims_policy_GRU
  /\ args.use_lstm_policy

Divisible == args.num_units > 0 /\ args.hidden_size % args.num_units = 0

Recognized == args.env_name \in {"MPE-simple.spread", "SISL-multiwalker"}

(* The embedding the head was given, read off the head's outputs.          *)
HeadInput ==
  IF last.op = "act" THEN [i \in DOMAIN last.out.ret.actions |-> last.out.ret.actions[i].x]
  ELSE IF last.op = "evaluate"
  THEN [i \in DOMAIN last.out.ret.action_log_probs |-> last.out.ret.action_log_probs[i].x]
  ELSE [i \in DOMAIN last.out.ret.values |-> last.out.ret.values[i].x]

B == Len(inp.obs)

(* The caller's state reshaped to (batch, num_units, hidden_size/num_units), *)
(* written entry by entry.                                                 *)
RefS ==
  [i \in 1..B |-> [u \in 1..args.num_units |->
     [j \in 1..(args.hidden_size \div args.num_units) |->
        inp.rnn_states[i][(u - 1) * (args.hidden_size \div args.num_units) + j]]]]

(* Entry k of sub-state `tag` of batch element i, flattened.               *)
RefFlat(tag, kind) ==
  [i \in 1..B |-> [k \in 1..args.hidden_size |->
     [t |-> tag, cell |-> kind, b |-> i,
      u |-> ((k - 1) \div (args.hidden_size \div args.num_units)) + 1,
      j |-> ((k - 1) % (args.hidden_size \div args.num_units)) + 1]]]

(* C1: whenever a recurrent policy is requested and zero or several of the *)
(* three variant flags are set, constructing the Actor or the Critic       *)
(* raises; no network comes out of it.                                     *)
C1_InvalidSelectionFails ==
  \A n \in Nets :
    (n.status # "unbuilt" /\ RecurrentRequested /\ VariantsSelected # 1)
      => n.status = "raised"

(* C2: with a Multi-Module variant selected, construction of the Actor or  *)
(* the Critic succeeds exactly when hidden_size is a multiple of num_units.*)
C2_IndivisibleFails ==
  \A n \in Nets :
    (n.status # "unbuilt" /\ MultiModuleSelected)
      => (n.status = "ok" <=> Divisible)

C4_DisabledPassThrough ==
  (/\ ~RecurrentRequested
   /\ last.op \in {"act", "estimate"}
   /\ last.op = "act" => actor.head # Unset)
    => /\ last.out.raised = NoError
       /\ last.out.calls = <<>>
       /\ HeadInput = base_forward(inp.obs)
       /\ last.out.ret.rnn_states = inp.rnn_states

C4_Witness ==
  /\ ~RecurrentRequested
  /\ args.use_rims_policy_LSTM /\ args.use_lstm_policy
  /\ last.op = "act" /\ last.out.raised = NoError
  /\ B = 2 /\ inp.masks = <<0, 1>> /\ inp.rnn_states[1][1] = 1

(* C5: in the Simple-Recurrent variant every call (act, evaluate,          *)
(* estimate) runs one step of the layer, and the state row that step       *)
(* consumes is all zero where mask[i] = 0 and the caller's row where       *)
(* mask[i] = 1.                                                            *)
C5_SimpleReset ==
  (SimpleSelected /\ Called)
    => /\ Len(last.out.calls) = 1
       /\ last.out.calls[1].unit.kind = "RNNLayer"
       /\ \A i \in 1..B :
            /\ inp.masks[i] = 0 =>
                 \A j \in 1..args.hidden_size : last.out.calls[1].consumed[i][j] = 0
            /\ inp.masks[i] = 1 =>
                 last.out.calls[1].consumed[i] = inp.rnn_states[i]

C5_Witness ==
  /\ SimpleSelected
  /\ last.op = "evaluate" /\ last.out.raised = NoError
  /\ B = 2 /\ inp.masks = <<0, 1>>
  /\ inp.rnn_states[1][1] = 1

(* C6: one Multi-Module step calls the cell once with the embedding under  *)
(* a singleton time dimension and the reshaped caller state S as both the  *)
(* hidden and the cell input; the head gets h' flattened, and the returned *)
(* state is c' flattened.                                                  *)
C6_MultiModuleStep ==
  (MultiModuleSelected /\ Divisible /\ Called)
    => /\ Len(last.out.calls) = 1
       /\ last.out.calls[1].x = [i \in 1..B |-> <<base_forward(inp.obs)[i]>>]
       /\ last.out.calls[1].h = RefS
       /\ last.out.calls[1].c = RefS
       /\ last.out.raised = NoError =>
            /\ HeadInput = RefFlat("h", last.out.calls[1].unit.rnn_cell)
            /\ last.op \in {"act", "estimate"} =>
                 last.out.ret.rnn_states = RefFlat("c", last.out.calls[1].unit.rnn_cell)

C6_Witness ==
  /\ MultiModuleSelected
  /\ args.hidden_size = 4 /\ args.num_units = 2
  /\ last.op = "estimate" /\ last.out.raised = NoError
  /\ inp.rnn_states[1] = <<1, 2, 3, 4>>

C8_FirstMatch ==
  /\ \A n \in Nets :
       (n.status = "ok" /\ RecurrentRequested)
         => /\ (n.rnn.kind = "RIMCell" /\ n.rnn.rnn_cell = "LSTM")
                 <=> args.use_rims_policy_LSTM
            /\ (n.rnn.kind = "RIMCell" /\ n.rnn.rnn_cell = "GRU")
                 <=> (args.use_rims_policy_GRU /\ ~args.use_rims_policy_LSTM)
            /\ n.rnn.kind = "RNNLayer"
                 <=> (args.use_lstm_policy /\ ~args.use_rims_policy_GRU
                        /\ ~args.use_rims_policy_LSTM)
  /\ (actor.status = "ok" /\ critic.status = "ok") => actor.rnn = critic.rnn

C8_Witness ==
  /\ RecurrentRequested
  /\ args.use_rims_policy_LSTM /\ args.use_rims_policy_GRU /\ args.use_lstm_policy
  /\ actor.status = "ok" /\ critic.status = "ok"
  /\ actor.rnn.kind = "RIMCell"

(* C9: the env_name never makes construction of the Actor fail; for a name *)
(* other than the two recognized ones the head is unset and every act or   *)
(* evaluate raises; for a recognized name the head is built, and a call    *)
(* whose recurrent step completes returns the head's output.               *)
C9_HeadByEnvName ==
  /\ actor.status = "raised" => (MultiModuleSelected /\ args.num_units = 0)
  /\ actor.status = "ok" =>
       /\ ~Recognized =>
            /\ actor.head = Unset
            /\ last.op \in {"act", "evaluate"} => last.out.raised # NoError
       /\ Recognized =>
            /\ actor.head.kind =
                 (IF args.env_name = "MPE-simple.spread" THEN "mpe_act"
                  ELSE "multiwalker_act")
            /\ last.op \in {"act", "evaluate"} =>
                 \/ /\ last.out.raised = NoError
                    /\ \A i \in 1..B :
                         /\ last.op = "act" =>
                              last.out.ret.actions[i].head = actor.head.kind
                         /\ last.op = "evaluate" =>
                              last.out.ret.action_log_probs[i].head = actor.head.kind
                 \/ /\ last.out.raised = "RuntimeError"
                    /\ MultiModuleSelected /\ ~Divisible

C9_Witness ==
  /\ actor.status = "ok" /\ ~Recognized
  /\ last.op = "evaluate" /\ last.out.raised = "AttributeError: act"
  /\ Len(last.out.calls) = 1

(* C10: a call invokes the recurrent unit only if construction built one,  *)
(* with the (embedding, hidden, cell) convention exactly when the unit is  *)
(* a Multi-Module cell and the (embedding, state, mask) convention exactly *)
(* when it is the Simple-Recurrent layer; no call fails for a missing      *)
(* recurrent unit.                                                         *)
NetOf(op) == IF op = "estimate" THEN critic ELSE actor

C10_CallMatchesConstruction ==
  Called =>
    /\ last.out.raised # "AttributeError: rnn"
    /\ Len(last.out.calls) <= 1
    /\ NetOf(last.op).rnn = Unset => last.out.calls = <<>>
    /\ NetOf(last.op).rnn # Unset =>
         \/ Len(last.out.calls) = 1
         \/ /\ last.out.raised = "RuntimeError"
            /\ NetOf(last.op).rnn.kind = "RIMCell" /\ ~Divisible
    /\ Len(last.out.calls) = 1 =>
         /\ last.out.calls[1].unit = NetOf(last.op).rnn
         /\ DOMAIN last.out.calls[1] = {"unit", "x", "h", "c"}
              <=> NetOf(last.op).rnn.kind = "RIMCell"
         /\ DOMAIN last.out.calls[1] = {"unit", "x", "h", "masks", "consumed"}
              <=> NetOf(last.op).rnn.kind = "RNNLayer"

C10_Witness ==
  /\ RecurrentRequested
  /\ args.use_rims_policy_GRU /\ args.use_lstm_policy /\ ~args.use_rims_policy_LSTM
  /\ last.op = "estimate" /\ Len(last.out.calls) = 1
  /\ last.out.calls[1].unit.kind = "RIMCell"
====
